---- MODULE Spec2Model ----
(***************************************************************************)
(* A model of scripts/ubuntu_health_check.py: one run of main(), statement *)
(* block by statement block.  Text is a sequence of atoms (short strings); *)
(* the whitespace atoms are " " and "\n".  An optional value (Python None) *)
(* is a set with at most one element: None is {} and a value x is {x}.     *)
(* The run starts after parse_args() has accepted the command line; host   *)
(* and kernel (platform.node, platform.release) are copied into the report *)
(* unread and are left out.                                                *)
(***************************************************************************)
EXTENDS Integers, Sequences, FiniteSets, TLC

VARIABLES
    pc,            \* the statement block main() is about to run
    args,          \* the parsed command line (argparse namespace)
    failures,      \* list of failure reasons
    os_name, uptime_out, boot_out, loadavg,
    r,             \* stdout of the last sh() result bound to r in main()
    cpu_usage,
    mem_total, mem_avail, mem_used, mem_used_pct,
    disk_use_pct, disk_size, disk_avail, disk_use_num,
    ping_ok, services_down, pkg_upgrades, docker,
    status, data,
    stdout, stderr, exit_code,
    calls,         \* the collectors that have run an external command
    svc_states     \* what systemctl answered for each checked service, in order

vars == <<pc, args, failures, os_name, uptime_out, boot_out, loadavg, r,
          cpu_usage, mem_total, mem_avail, mem_used, mem_used_pct,
          disk_use_pct, disk_size, disk_avail, disk_use_num,
          ping_ok, services_down, pkg_upgrades, docker,
          status, data, stdout, stderr, exit_code, calls, svc_states>>

----------------------------------------------------------------------------
(* Bounds and input sets                                                   *)

\* the longest --services argument, in atoms
MaxSvcLen == 3

SvcAlphabet == {" ", "a", "b"}

Thresholds == {50, 85}

PingTargets == {<<"8.8.8.8">>, <<"10.0.0.1">>}

Formats == {"json", "text"}

None == {}

Some(x) == {x}

TheValue(opt) == CHOOSE x \in opt : TRUE

----------------------------------------------------------------------------
(* Text helpers: what str.strip, str.split, str.join, str.rstrip, int and  *)
(* integer formatting do                                                   *)

Whitespace == {" ", "\n", "\t"}

Digits == <<"0", "1", "2", "3", "4", "5", "6", "7", "8", "9">>

DigitSet == {Digits[i] : i \in 1..10}

DigitValue(c) == (CHOOSE i \in 1..10 : Digits[i] = c) - 1

RECURSIVE LStrip(_, _)
LStrip(s, chars) ==
    IF s # <<>> /\ Head(s) \in chars THEN LStrip(Tail(s), chars) ELSE s

RECURSIVE RStrip(_, _)
RStrip(s, chars) ==
    IF s # <<>> /\ s[Len(s)] \in chars
    THEN RStrip(SubSeq(s, 1, Len(s) - 1), chars)
    ELSE s

\* str.strip()
Strip(s) == RStrip(LStrip(s, Whitespace), Whitespace)

\* str.split(): the maximal runs of non-whitespace atoms, in order
RECURSIVE SplitFrom(_, _, _)
SplitFrom(s, cur, acc) ==
    IF s = <<>>
    THEN IF cur = <<>> THEN acc ELSE Append(acc, cur)
    ELSE IF Head(s) \in Whitespace
         THEN SplitFrom(Tail(s), <<>>, IF cur = <<>> THEN acc ELSE Append(acc, cur))
         ELSE SplitFrom(Tail(s), Append(cur, Head(s)), acc)

Split(s) == SplitFrom(s, <<>>, <<>>)

\* " ".join(words)
RECURSIVE Join(_)
Join(words) ==
    IF words = <<>> THEN <<>>
    ELSE IF Len(words) = 1 THEN words[1]
    ELSE words[1] \o <<" ">> \o Join(Tail(words))

RECURSIVE DigitsValue(_, _)
DigitsValue(s, acc) ==
    IF s = <<>> THEN acc ELSE DigitsValue(Tail(s), 10 * acc + DigitValue(Head(s)))

\* whether int(s) returns: optional whitespace, optional sign, one or more digits
IsInt(s) ==
    LET t == Strip(s)
        u == IF t # <<>> /\ Head(t) \in {"-", "+"} THEN Tail(t) ELSE t
    IN  u # <<>> /\ \A i \in 1..Len(u) : u[i] \in DigitSet

\* int(s), where IsInt(s)
ParseInt(s) ==
    LET t == Strip(s)
    IN  IF Head(t) = "-" THEN 0 - DigitsValue(Tail(t), 0)
        ELSE IF Head(t) = "+" THEN DigitsValue(Tail(t), 0)
        ELSE DigitsValue(t, 0)

\* str(n) for n >= 0
RECURSIVE Str(_)
Str(n) ==
    IF n < 10 THEN <<Digits[n + 1]>>
    ELSE Append(Str(n \div 10), Digits[(n % 10) + 1])

\* all texts over an alphabet with at most n atoms
RECURSIVE TextsUpTo(_, _)
TextsUpTo(alphabet, n) ==
    IF n = 0 THEN {<<>>}
    ELSE LET shorter == TextsUpTo(alphabet, n - 1)
         IN  shorter \cup {Append(s, c) : s \in shorter, c \in alphabet}

----------------------------------------------------------------------------
(* What the host can answer to each probe                                  *)

\* /etc/os-release: missing, or its lines
OsReleaseFiles ==
    { None,
      Some(<< <<"ID=ubuntu", "\n">> >>),
      Some(<< <<"ID=ubuntu", "\n">>,
              <<"PRETTY_NAME=", "\"", "Ubuntu 22.04", "\"", "\n">> >>) }

\* stdout of `uptime -p`
UptimeOutputs == { <<>>, <<"up", " ", "2", " ", "hours", "\n">> }

\* stdout of `who -b | awk ...`
BootOutputs == { <<>>, <<"2024-01-01", " ", "00:00", "\n">> }

\* /proc/loadavg: unreadable, or its content
LoadAvgFiles ==
    { None,
      Some(<<"0.10", "\n">>),
      Some(<<"0.10", " ", "0.20", " ", "0.30", " ", "1/100", " ", "1234", "\n">>),
      Some(<<"2.50", " ", "1.75", " ", "1.00", " ", "3/100", " ", "99", "\n">>) }

\* stdout of the mpstat or top pipeline
CpuOutputs == { <<>>, <<"12.5", "\n">> }

\* stdout of `grep MemTotal /proc/meminfo | awk '{print $2}'`
MemTotalOutputs == { <<>>, <<"8", "\n">>, <<"k", "B", "\n">> }

\* stdout of `grep MemAvailable /proc/meminfo | awk '{print $2}'`
MemAvailOutputs == { <<>>, <<"2", "\n">>, <<"k", "B", "\n">> }

\* stdout of `df -hP / | awk 'NR==2{...}'`: nothing, a six-column line, a
\* line whose Use% column is "-", a line with five columns
DiskOutputs ==
    { <<>>,
      <<"/dev/sda1", " ", "20G", " ", "10G", " ", "10G", " ", "5", "0", "%", " ", "/", "\n">>,
      <<"/dev/sda1", " ", "20G", " ", "18G", " ", "2G", " ", "9", "0", "%", " ", "/", "\n">>,
      <<"tmpfs", " ", "0", " ", "0", " ", "0", " ", "-", " ", "/", "\n">>,
      <<"/dev/sda1", " ", "20G", " ", "10G", " ", "10G", " ", "5", "0", "%", " ", " ", "\n">> }

\* exit statuses of `ping -c 1 -W 2`
PingReturnCodes == {0, 1, 2}

\* exit statuses of `systemctl is-active --quiet`
IsActiveReturnCodes == {0, 3}

\* stdout of `apt-get -s upgrade | awk ...`
AptOutputs ==
    { <<>>, <<"\n">>, <<"0", "\n">>, <<"3", "\n">>, <<"E", ":", "\n">> }

\* exit statuses of `docker info`
DockerReturnCodes == {0, 1}

\* time.gmtime() when the report is assembled
Timestamps == { <<"2024-01-01T00:00:00Z">> }

ServiceArgs == TextsUpTo(SvcAlphabet, MaxSvcLen)

\* a host answering each probe in any of the ways above
FactsHost ==
    [ os_release |-> OsReleaseFiles, uptime |-> UptimeOutputs, boot |-> BootOutputs,
      loadavg |-> LoadAvgFiles, cpu |-> CpuOutputs,
      mem_total |-> MemTotalOutputs, mem_avail |-> MemAvailOutputs,
      disk |-> DiskOutputs, ping |-> PingReturnCodes,
      is_active |-> IsActiveReturnCodes, apt |-> AptOutputs,
      docker |-> DockerReturnCodes, clock |-> Timestamps ]

\* a host whose informational probes answer in one way each (the probes the
\* policy reads, and the ones that can end the run, answer in every way)
PolicyHost ==
    [ os_release |-> {None, Some(<< <<"PRETTY_NAME=", "\"", "Ubuntu 22.04", "\"", "\n">> >>)},
      uptime |-> {<<"up", " ", "2", " ", "hours", "\n">>},
      boot |-> {<<"2024-01-01", " ", "00:00", "\n">>},
      loadavg |-> LoadAvgFiles \ {Some(<<"2.50", " ", "1.75", " ", "1.00", " ", "3/100", " ", "99", "\n">>)},
      cpu |-> {<<"12.5", "\n">>},
      mem_total |-> MemTotalOutputs \ {<<>>}, mem_avail |-> {<<"2", "\n">>},
      disk |-> DiskOutputs, ping |-> PingReturnCodes,
      is_active |-> IsActiveReturnCodes, apt |-> {<<"3", "\n">>},
      docker |-> {0}, clock |-> Timestamps ]

----------------------------------------------------------------------------
(* The run                                                                 *)

Start ==
    /\ pc = "os_release"
    /\ failures = <<>>
    /\ os_name = <<>>
    /\ uptime_out = <<>>
    /\ boot_out = <<>>
    /\ loadavg = None
    /\ r = <<>>
    /\ cpu_usage = None
    /\ mem_total = 0
    /\ mem_avail = 0
    /\ mem_used = 0
    /\ mem_used_pct = 0
    /\ disk_use_pct = <<>>
    /\ disk_size = <<>>
    /\ disk_avail = <<>>
    /\ disk_use_num = 0
    /\ ping_ok = "unknown"
    /\ services_down = <<>>
    /\ pkg_upgrades = None
    /\ docker = None
    /\ status = "unbound"
    /\ data = None
    /\ stdout = <<>>
    /\ stderr = <<>>
    /\ exit_code = None
    /\ calls = {}
    /\ svc_states = None

Init ==
    /\ args \in [disk_threshold : Thresholds, ping : PingTargets,
                 services : ServiceArgs, format : Formats]
    /\ Start

InitFacts ==
    /\ args \in [disk_threshold : Thresholds, ping : {<<"8.8.8.8">>},
                 services : {<<"a", " ", "b">>}, format : Formats]
    /\ Start

\* an exception nothing catches: the interpreter prints the traceback to the
\* error stream and the process ends with status 1
Raise(exc, at) ==
    /\ pc' = "done"
    /\ stderr' = Append(stderr, [exc |-> exc, at |-> at])
    /\ exit_code' = Some(1)

\* line.split("=",1)[1].strip().strip('"') of the first PRETTY_NAME= line
RECURSIVE PrettyName(_)
PrettyName(lines) ==
    IF lines = <<>> THEN <<>>
    ELSE IF Head(lines) # <<>> /\ Head(Head(lines)) = "PRETTY_NAME="
         THEN RStrip(LStrip(Strip(Tail(Head(lines))), {"\""}), {"\""})
         ELSE PrettyName(Tail(lines))

OsRelease(host) ==
    /\ pc = "os_release"
    /\ \E file \in host.os_release :
          os_name' = IF file = None THEN <<>> ELSE PrettyName(TheValue(file))
    /\ pc' = "uptime"
    /\ UNCHANGED <<args, failures, uptime_out, boot_out, loadavg, r, cpu_usage,
                   mem_total, mem_avail, mem_used, mem_used_pct,
                   disk_use_pct, disk_size, disk_avail, disk_use_num,
                   ping_ok, services_down, pkg_upgrades, docker,
                   status, data, stdout, stderr, exit_code, calls, svc_states>>

Uptime(host) ==
    /\ pc = "uptime"
    /\ \E up \in host.uptime, boot \in host.boot :
          /\ uptime_out' = Strip(up)
          /\ boot_out' = Strip(boot)
    /\ calls' = calls \cup {"uptime", "boot"}
    /\ pc' = "loadavg"
    /\ UNCHANGED <<args, failures, os_name, loadavg, r, cpu_usage,
                   mem_total, mem_avail, mem_used, mem_used_pct,
                   disk_use_pct, disk_size, disk_avail, disk_use_num,
                   ping_ok, services_down, pkg_upgrades, docker,
                   status, data, stdout, stderr, exit_code, svc_states>>

LoadAvg(host) ==
    /\ pc = "loadavg"
    /\ \E file \in host.loadavg :
          IF file = None
          THEN /\ Raise("FileNotFoundError", "loadavg")
               /\ UNCHANGED loadavg
          ELSE LET fields == Split(TheValue(file))
               IN  IF Len(fields) < 4
                   THEN /\ Raise("ValueError", "loadavg")
                        /\ UNCHANGED loadavg
                   ELSE /\ loadavg' = Some(<<fields[1], fields[2], fields[3]>>)
                        /\ pc' = "cpu"
                        /\ UNCHANGED <<stderr, exit_code>>
    /\ UNCHANGED <<args, failures, os_name, uptime_out, boot_out, r, cpu_usage,
                   mem_total, mem_avail, mem_used, mem_used_pct,
                   disk_use_pct, disk_size, disk_avail, disk_use_num,
                   ping_ok, services_down, pkg_upgrades, docker,
                   status, data, stdout, calls, svc_states>>

\* both branches bind r and cpu_usage the same way; only the command differs
Cpu(host) ==
    /\ pc = "cpu"
    /\ \E has_mpstat \in BOOLEAN, out \in host.cpu :
          IF has_mpstat
          THEN /\ r' = out
               /\ cpu_usage' = IF Strip(out) = <<>> THEN None ELSE Some(Strip(out))
          ELSE /\ r' = out
               /\ cpu_usage' = IF Strip(out) = <<>> THEN None ELSE Some(Strip(out))
    /\ calls' = calls \cup {"cpu"}
    /\ pc' = "memory"
    /\ UNCHANGED <<args, failures, os_name, uptime_out, boot_out, loadavg,
                   mem_total, mem_avail, mem_used, mem_used_pct,
                   disk_use_pct, disk_size, disk_avail, disk_use_num,
                   ping_ok, services_down, pkg_upgrades, docker,
                   status, data, stdout, stderr, exit_code, svc_states>>

\* whether read_mem_kb returns on this stdout
ReadMemKbOk(out) == Strip(out) = <<>> \/ IsInt(Strip(out))

\* int(r.stdout.strip() or 0)
ReadMemKb(out) == IF Strip(out) = <<>> THEN 0 ELSE ParseInt(Strip(out))

\* round(num / den * 100, 1), in tenths of a percent (ties to even)
RoundPct1(num, den) ==
    LET n == num * 1000
        q == n \div den
        rem2 == 2 * (n - q * den)
    IN  IF rem2 > den \/ (rem2 = den /\ q % 2 = 1) THEN q + 1 ELSE q

Memory(host) ==
    /\ pc = "memory"
    /\ \E tot \in host.mem_total, av \in host.mem_avail :
          IF ~ReadMemKbOk(tot) \/ ~ReadMemKbOk(av)
          THEN /\ Raise("ValueError", "memory")
               /\ UNCHANGED <<mem_total, mem_avail, mem_used, mem_used_pct>>
          ELSE /\ mem_total' = ReadMemKb(tot)
               /\ mem_avail' = ReadMemKb(av)
               /\ mem_used' = mem_total' - mem_avail'
               /\ mem_used_pct' = IF mem_total' # 0
                                  THEN RoundPct1(mem_used', mem_total') ELSE 0
               /\ pc' = "disk"
               /\ UNCHANGED <<stderr, exit_code>>
    /\ calls' = calls \cup {"memory"}
    /\ UNCHANGED <<args, failures, os_name, uptime_out, boot_out, loadavg, r,
                   cpu_usage, disk_use_pct, disk_size, disk_avail, disk_use_num,
                   ping_ok, services_down, pkg_upgrades, docker,
                   status, data, stdout, svc_states>>

\* the six columns: r.stdout.strip().split(), or six empty strings
DiskFields(out) ==
    IF Strip(out) # <<>> THEN Split(Strip(out))
    ELSE << <<>>, <<>>, <<>>, <<>>, <<>>, <<>> >>

\* int(disk_use_pct.rstrip("%")) if disk_use_pct else 0, where it returns
DiskUseNum(pct) == IF pct # <<>> THEN ParseInt(RStrip(pct, {"%"})) ELSE 0

DiskExceedsStrictlyOrEqual(num, threshold) == num >= threshold

\* disk_use_num > args.disk_threshold
DiskExceeds(num, threshold) == num > threshold

DiskReason(pct, threshold) ==
    <<"Root disk usage ">> \o pct \o <<" exceeds ">> \o Str(threshold) \o <<"%">>

PrependFailure(fs, reason) == <<reason>> \o fs

\* failures.append(reason)
AppendFailure(fs, reason) == Append(fs, reason)

Disk(host) ==
    /\ pc = "disk"
    /\ \E out \in host.disk :
          LET fields == DiskFields(out)
          IN  /\ r' = out
              /\ IF Len(fields) # 6
                 THEN /\ Raise("ValueError", "disk")
                      /\ UNCHANGED <<disk_use_pct, disk_size, disk_avail,
                                     disk_use_num, failures>>
                 ELSE /\ disk_size' = fields[2]
                      /\ disk_avail' = fields[4]
                      /\ disk_use_pct' = fields[5]
                      /\ IF fields[5] # <<>> /\ ~IsInt(RStrip(fields[5], {"%"}))
                         THEN /\ Raise("ValueError", "disk")
                              /\ UNCHANGED <<disk_use_num, failures>>
                         ELSE /\ disk_use_num' = DiskUseNum(fields[5])
                              /\ failures' =
                                    IF DiskExceeds(disk_use_num', args.disk_threshold)
                                    THEN AppendFailure(failures,
                                            DiskReason(fields[5], args.disk_threshold))
                                    ELSE failures
                              /\ pc' = "ping"
                              /\ UNCHANGED <<stderr, exit_code>>
    /\ calls' = calls \cup {"disk"}
    /\ UNCHANGED <<args, os_name, uptime_out, boot_out, loadavg, cpu_usage,
                   mem_total, mem_avail, mem_used, mem_used_pct,
                   ping_ok, services_down, pkg_upgrades, docker,
                   status, data, stdout, svc_states>>

PingClassNeverFalse(rc) == IF rc = 0 THEN "true" ELSE "unknown"

\* "true" if sh(...).returncode == 0 else "false"
PingClass(rc) == IF rc = 0 THEN "true" ELSE "false"

PingReason(target) == <<"Ping to ">> \o target \o <<" failed">>

Ping(host) ==
    /\ pc = "ping"
    /\ \E has_ping \in BOOLEAN :
          IF has_ping
          THEN \E rc \in host.ping :
                  /\ ping_ok' = PingClass(rc)
                  /\ failures' = IF ping_ok' = "false"
                                 THEN AppendFailure(failures, PingReason(args.ping))
                                 ELSE failures
                  /\ calls' = calls \cup {"ping"}
          ELSE /\ ping_ok' = "unknown"
               /\ UNCHANGED <<failures, calls>>
    /\ pc' = "services"
    /\ UNCHANGED <<args, os_name, uptime_out, boot_out, loadavg, r, cpu_usage,
                   mem_total, mem_avail, mem_used, mem_used_pct,
                   disk_use_pct, disk_size, disk_avail, disk_use_num,
                   services_down, pkg_upgrades, docker,
                   status, data, stdout, stderr, exit_code, svc_states>>

\* sh(f"systemctl is-active --quiet {svc}").returncode != 0
IsDown(rc) == rc # 0

RECURSIVE DownServicesNewestFirst(_, _)
DownServicesNewestFirst(svcs, rcs) ==
    IF svcs = <<>> THEN <<>>
    ELSE DownServicesNewestFirst(Tail(svcs), Tail(rcs))
         \o (IF IsDown(Head(rcs)) THEN <<Head(svcs)>> ELSE <<>>)

\* the loop over args.services.split(): the services whose query failed
RECURSIVE DownServices(_, _)
DownServices(svcs, rcs) ==
    IF svcs = <<>> THEN <<>>
    ELSE (IF IsDown(Head(rcs)) THEN <<Head(svcs)>> ELSE <<>>)
         \o DownServices(Tail(svcs), Tail(rcs))

ServicesReason(down) == <<"Services not active: ">> \o Join(down)

Services(host) ==
    /\ pc = "services"
    /\ \E has_systemctl \in BOOLEAN :
          IF has_systemctl
          THEN LET svcs == Split(args.services)
               IN  \E rcs \in [1..Len(svcs) -> host.is_active] :
                      /\ svc_states' = Some(rcs)
                      /\ services_down' = DownServices(svcs, rcs)
                      /\ failures' = IF services_down' # <<>>
                                     THEN AppendFailure(failures,
                                             ServicesReason(services_down'))
                                     ELSE failures
                      /\ calls' = IF svcs # <<>> THEN calls \cup {"services"} ELSE calls
          ELSE /\ services_down' = <<>>
               /\ UNCHANGED <<failures, calls, svc_states>>
    /\ pc' = "upgrades"
    /\ UNCHANGED <<args, os_name, uptime_out, boot_out, loadavg, r, cpu_usage,
                   mem_total, mem_avail, mem_used, mem_used_pct,
                   disk_use_pct, disk_size, disk_avail, disk_use_num,
                   ping_ok, pkg_upgrades, docker,
                   status, data, stdout, stderr, exit_code>>

ParseUpgradesZeroOnError(out) ==
    LET text == IF out # <<>> THEN out ELSE <<"0">>
    IN  IF IsInt(text) THEN Some(ParseInt(text)) ELSE Some(0)

\* int((r.stdout or "0").strip()), None when int raises
ParseUpgrades(out) ==
    LET text == IF out # <<>> THEN out ELSE <<"0">>
    IN  IF IsInt(Strip(text)) THEN Some(ParseInt(Strip(text))) ELSE None

Upgrades(host) ==
    /\ pc = "upgrades"
    /\ \E has_apt_get \in BOOLEAN :
          IF has_apt_get
          THEN \E out \in host.apt :
                  /\ r' = out
                  /\ pkg_upgrades' = ParseUpgrades(out)
                  /\ calls' = calls \cup {"upgrades"}
          ELSE /\ pkg_upgrades' = None
               /\ UNCHANGED <<r, calls>>
    /\ pc' = "docker"
    /\ UNCHANGED <<args, failures, os_name, uptime_out, boot_out, loadavg,
                   cpu_usage, mem_total, mem_avail, mem_used, mem_used_pct,
                   disk_use_pct, disk_size, disk_avail, disk_use_num,
                   ping_ok, services_down, docker,
                   status, data, stdout, stderr, exit_code, svc_states>>

Docker(host) ==
    /\ pc = "docker"
    /\ \E has_docker \in BOOLEAN :
          IF has_docker
          THEN \E rc \in host.docker :
                  /\ docker' = IF rc = 0 THEN Some("running")
                               ELSE Some("installed_not_running_or_no_perms")
                  /\ calls' = calls \cup {"docker"}
          ELSE /\ docker' = None
               /\ UNCHANGED calls
    /\ pc' = "status"
    /\ UNCHANGED <<args, failures, os_name, uptime_out, boot_out, loadavg, r,
                   cpu_usage, mem_total, mem_avail, mem_used, mem_used_pct,
                   disk_use_pct, disk_size, disk_avail, disk_use_num,
                   ping_ok, services_down, pkg_upgrades,
                   status, data, stdout, stderr, exit_code, svc_states>>

StatusOfSeveral(fs) == IF Len(fs) <= 1 THEN "healthy" ELSE "unhealthy"

StatusOfUpgradesToo(fs) ==
    IF fs = <<>> /\ pkg_upgrades \in {None, Some(0)} THEN "healthy" ELSE "unhealthy"

\* "healthy" if not failures else "unhealthy"
StatusOf(fs) == IF fs = <<>> THEN "healthy" ELSE "unhealthy"

Status ==
    /\ pc = "status"
    /\ status' = StatusOf(failures)
    /\ pc' = "assemble"
    /\ UNCHANGED <<args, failures, os_name, uptime_out, boot_out, loadavg, r,
                   cpu_usage, mem_total, mem_avail, mem_used, mem_used_pct,
                   disk_use_pct, disk_size, disk_avail, disk_use_num,
                   ping_ok, services_down, pkg_upgrades, docker,
                   data, stdout, stderr, exit_code, calls, svc_states>>

\* the report dictionary
Report(now) ==
    [ timestamp |-> now,
      os |-> os_name,
      uptime |-> uptime_out,
      boot_time |-> boot_out,
      loadavg |-> loadavg,
      cpu_usage_pct |-> cpu_usage,
      memory |-> [used_pct |-> mem_used_pct, used_kb |-> mem_used,
                  total_kb |-> mem_total],
      disk_root |-> [used_pct |-> disk_use_pct, size |-> disk_size,
                     avail |-> disk_avail, threshold_pct |-> args.disk_threshold],
      network |-> [ping_host |-> args.ping, ping_ok |-> ping_ok],
      services |-> [checked |-> Split(args.services), down |-> services_down],
      packages |-> [upgrades_pending |-> pkg_upgrades],
      docker |-> docker,
      status |-> status,
      failures |-> failures ]

Assemble(host) ==
    /\ pc = "assemble"
    /\ \E now \in host.clock : data' = Some(Report(now))
    /\ pc' = "present"
    /\ UNCHANGED <<args, failures, os_name, uptime_out, boot_out, loadavg, r,
                   cpu_usage, mem_total, mem_avail, mem_used, mem_used_pct,
                   disk_use_pct, disk_size, disk_avail, disk_use_num,
                   ping_ok, services_down, pkg_upgrades, docker,
                   status, stdout, stderr, exit_code, calls, svc_states>>

JsonDump(d) == [kind |-> "json", body |-> d]

Line(text) == [kind |-> "line", body |-> text]

PresentLinesRecordFirst(format, d, st) ==
    IF format = "json"
    THEN <<JsonDump(d)>>
    ELSE <<JsonDump(d),
           Line(<<"Ubuntu Health Check - ">> \o d.timestamp),
           Line(<<"Status: ", st>>)>>

\* what the format branch prints, in order
PresentLines(format, d, st) ==
    IF format = "json"
    THEN <<JsonDump(d)>>
    ELSE <<Line(<<"Ubuntu Health Check - ">> \o d.timestamp),
           Line(<<"Status: ", st>>),
           JsonDump(d)>>

Present ==
    /\ pc = "present"
    /\ stdout' = stdout \o PresentLines(args.format, TheValue(data), status)
    /\ pc' = "exit"
    /\ UNCHANGED <<args, failures, os_name, uptime_out, boot_out, loadavg, r,
                   cpu_usage, mem_total, mem_avail, mem_used, mem_used_pct,
                   disk_use_pct, disk_size, disk_avail, disk_use_num,
                   ping_ok, services_down, pkg_upgrades, docker,
                   status, data, stderr, exit_code, calls, svc_states>>

ExitCodeOfAlwaysZero(st) == 0

\* 0 if status == "healthy" else 1
ExitCodeOf(st) == IF st = "healthy" THEN 0 ELSE 1

Exit ==
    /\ pc = "exit"
    /\ exit_code' = Some(ExitCodeOf(status))
    /\ pc' = "done"
    /\ UNCHANGED <<args, failures, os_name, uptime_out, boot_out, loadavg, r,
                   cpu_usage, mem_total, mem_avail, mem_used, mem_used_pct,
                   disk_use_pct, disk_size, disk_avail, disk_use_num,
                   ping_ok, services_down, pkg_upgrades, docker,
                   status, data, stdout, stderr, calls, svc_states>>

Next ==
    \/ OsRelease(PolicyHost)
    \/ Uptime(PolicyHost)
    \/ LoadAvg(PolicyHost)
    \/ Cpu(PolicyHost)
    \/ Memory(PolicyHost)
    \/ Disk(PolicyHost)
    \/ Ping(PolicyHost)
    \/ Services(PolicyHost)
    \/ Upgrades(PolicyHost)
    \/ Docker(PolicyHost)
    \/ Status
    \/ Assemble(PolicyHost)
    \/ Present
    \/ Exit

\* every command line within the bounds, on a host whose informational
\* probes answer in few ways
Spec == Init /\ [][Next]_vars

NextFacts ==
    \/ OsRelease(FactsHost)
    \/ Uptime(FactsHost)
    \/ LoadAvg(FactsHost)
    \/ Cpu(FactsHost)
    \/ Memory(FactsHost)
    \/ Disk(FactsHost)
    \/ Ping(FactsHost)
    \/ Services(FactsHost)
    \/ Upgrades(FactsHost)
    \/ Docker(FactsHost)
    \/ Status
    \/ Assemble(FactsHost)
    \/ Present
    \/ Exit

\* few command lines, on a host whose probes answer in every way listed
SpecFacts == InitFacts /\ [][NextFacts]_vars

----------------------------------------------------------------------------
(* Observations used by the properties                                     *)

\* the JSON documents written to standard output so far
Emitted == {i \in 1..Len(stdout) : stdout[i].kind = "json"}

Reported == Emitted # {}

\* the report written to standard output, where Reported
TheReport == stdout[CHOOSE i \in Emitted : TRUE].body

Range(seq) == {seq[i] : i \in 1..Len(seq)}

\* the run died of an exception raised by the named block
DiedAt(at) == stderr # <<>> /\ stderr[1].at = at

\* positions of main() after status has been assigned, in a run still alive
AfterStatus == pc \in {"assemble", "present", "exit"} \/ (pc = "done" /\ stderr = <<>>)

\* positions after the services block
AfterServices == pc \in {"upgrades", "docker", "status"} \/ AfterStatus

\* positions after the upgrades block
AfterUpgrades == pc \in {"docker", "status"} \/ AfterStatus

\* some queried service was reported not active
SomeServiceDown ==
    /\ svc_states # None
    /\ \E i \in DOMAIN TheValue(svc_states) : TheValue(svc_states)[i] # 0

----------------------------------------------------------------------------
(* C1: a run that emits a report has status unhealthy exactly when disk    *)
(* usage is strictly above the threshold, or the ping classification is    *)
(* "false", or some checked service is down; otherwise it is healthy.      *)
C1_DisjunctivePolicy ==
    Reported =>
        /\ TheReport.status \in {"healthy", "unhealthy"}
        /\ TheReport.status = "unhealthy" <=>
              \/ disk_use_num > args.disk_threshold
              \/ ping_ok = "false"
              \/ SomeServiceDown

\* a healthy report with disk usage exactly at the threshold
C1_Witness ==
    /\ Reported
    /\ TheReport.status = "healthy"
    /\ disk_use_num = args.disk_threshold
    /\ ping_ok = "true"

(* C2: in both formats a run that emitted a report exits 0 when the        *)
(* report is healthy and 1 when it is unhealthy, with no other code, and   *)
(* never 0 with a non-empty failures list.                                 *)
C2_ExitCodeFollowsStatus ==
    (Reported /\ pc = "done") =>
        /\ exit_code \in {Some(0), Some(1)}
        /\ exit_code = Some(0) <=> TheReport.status = "healthy"
        /\ exit_code = Some(1) <=> TheReport.status = "unhealthy"
        /\ exit_code = Some(0) => TheReport.failures = <<>>

\* a text-format run that reported unhealthy and exited 1
C2_Witness ==
    /\ pc = "done"
    /\ Reported
    /\ args.format = "text"
    /\ TheReport.status = "unhealthy"
    /\ exit_code = Some(1)

(* C3: status is unbound until every check has run, from then on it is     *)
(* unhealthy exactly when failures is non-empty, and the emitted report    *)
(* carries that status and those failures.                                 *)
C3_StatusDerivedFromFailures ==
    /\ ~AfterStatus => status = "unbound"
    /\ AfterStatus =>
          /\ status \in {"healthy", "unhealthy"}
          /\ status = "unhealthy" <=> failures # <<>>
    /\ Reported =>
          /\ TheReport.status = "unhealthy" <=> TheReport.failures # <<>>
          /\ TheReport.status = status
          /\ TheReport.failures = failures

\* an unhealthy report with exactly one failure reason
C3_Witness ==
    /\ Reported
    /\ Len(TheReport.failures) = 1
    /\ TheReport.status = "unhealthy"

(* C4: once the three policy rules have run, failures holds the disk       *)
(* reason iff disk usage exceeds the threshold, the ping reason iff the    *)
(* ping classification is "false", the services reason iff a service is    *)
(* down; each at most once, in that order, and nothing else.               *)
C4_FailuresInRuleOrder ==
    AfterServices =>
        LET diskReason == <<"Root disk usage ">> \o disk_use_pct \o <<" exceeds ">>
                             \o Str(args.disk_threshold) \o <<"%">>
            pingReason == <<"Ping to ">> \o args.ping \o <<" failed">>
            svcReason  == <<"Services not active: ">> \o Join(services_down)
            rank(f) == IF f = diskReason THEN 1 ELSE IF f = pingReason THEN 2 ELSE 3
        IN  /\ Range(failures) \subseteq {diskReason, pingReason, svcReason}
            /\ diskReason \in Range(failures) <=> disk_use_num > args.disk_threshold
            /\ pingReason \in Range(failures) <=> ping_ok = "false"
            /\ svcReason \in Range(failures) <=> SomeServiceDown
            /\ \A i, j \in 1..Len(failures) :
                  i < j => rank(failures[i]) < rank(failures[j])

\* all three reasons present in a report
C4_Witness ==
    /\ Reported
    /\ Len(TheReport.failures) = 3

(* C5: services.down is the subsequence of services.checked whose query    *)
(* answered not active, in input order, and the services reason names      *)
(* exactly those, space-joined; with no service manager nothing is         *)
(* queried, down is empty and there is no services reason.                 *)
C5_DownIsSubsequenceOfChecked ==
    AfterServices =>
        LET checked == Split(args.services)
            hasReason == \E i \in 1..Len(failures) :
                            Head(failures[i]) = "Services not active: "
        IN  /\ svc_states = None =>
                  /\ services_down = <<>>
                  /\ ~hasReason
                  /\ "services" \notin calls
            /\ svc_states # None =>
                  LET rcs == TheValue(svc_states)
                      downAt == {i \in 1..Len(checked) : rcs[i] # 0}
                      nth(k) == CHOOSE i \in downAt :
                                   Cardinality({j \in downAt : j < i}) = k - 1
                  IN  /\ Len(rcs) = Len(checked)
                      /\ Len(services_down) = Cardinality(downAt)
                      /\ \A k \in 1..Len(services_down) :
                            services_down[k] = checked[nth(k)]
                      /\ hasReason <=> downAt # {}
                      /\ downAt # {} =>
                            failures[Len(failures)] =
                               <<"Services not active: ">> \o Join(services_down)
            /\ Reported =>
                  /\ TheReport.services.checked = checked
                  /\ TheReport.services.down = services_down

\* two differently named services, both down, in a report
C5_Witness ==
    /\ Reported
    /\ Len(TheReport.services.down) = 2
    /\ TheReport.services.down[1] # TheReport.services.down[2]

(* C6: no collector but the load-average read ends the run: a run that     *)
(* has ended either emitted its report and exited 0 or 1, or died reading  *)
(* the load averages.                                                     *)
C6_OnlyLoadAvgIsFatal ==
    /\ stderr # <<>> => DiedAt("loadavg")
    /\ (pc = "done" /\ ~DiedAt("loadavg")) =>
          Reported /\ exit_code \in {Some(0), Some(1)}

(* C7: when the load averages cannot be read nothing is written to         *)
(* standard output and no later collector runs, and that is the only way   *)
(* a run ends without a report.                                            *)
C7_NoReportOnlyWhenLoadAvgFails ==
    /\ DiedAt("loadavg") =>
          /\ Len(stdout) = 0
          /\ calls \subseteq {"uptime", "boot"}
          /\ pc = "done"
    /\ (pc = "done" /\ ~Reported) => DiedAt("loadavg")

(* C8: nothing is printed before every collector and the evaluation are    *)
(* done; the report is printed exactly once, before the process exits, as  *)
(* the last thing on standard output; text format prints two header lines  *)
(* before it and json format prints nothing else.                          *)
C8_ReportPrintedOnceAtTheEnd ==
    /\ pc \notin {"exit", "done"} => Len(stdout) = 0
    /\ pc = "exit" => Reported /\ exit_code = None
    /\ (pc = "done" /\ stderr = <<>>) => Reported
    /\ Reported =>
          /\ Cardinality(Emitted) = 1
          /\ Emitted = {Len(stdout)}
          /\ TheReport = TheValue(data)
          /\ TheReport.status = status /\ TheReport.failures = failures
          /\ args.format = "json" => Len(stdout) = 1
          /\ args.format = "text" =>
                /\ Len(stdout) = 3
                /\ stdout[1].kind = "line" /\ stdout[2].kind = "line"
                /\ Head(stdout[1].body) = "Ubuntu Health Check - "
                /\ stdout[2].body = <<"Status: ", status>>

\* a finished text-format run
C8_Witness ==
    /\ pc = "done"
    /\ args.format = "text"
    /\ Len(stdout) = 3
    /\ exit_code # None

(* C9: failures, status and the exit code are a function of the policy     *)
(* inputs alone (threshold, target, disk reading, ping classification,     *)
(* services and their states): whatever the other facts and the format     *)
(* are, every report equals that function of the policy inputs, so two     *)
(* runs that agree on them agree on failures, status and exit code.        *)
C9_OutcomeDependsOnPolicyInputsOnly ==
    Reported =>
        LET checked == Split(args.services)
            names == IF svc_states = None THEN <<>>
                     ELSE LET rcs == TheValue(svc_states)
                              keep(i) == rcs[i] # 0
                              F[i \in 0..Len(checked)] ==
                                  IF i = 0 THEN <<>>
                                  ELSE IF keep(i) THEN Append(F[i - 1], checked[i])
                                  ELSE F[i - 1]
                          IN  F[Len(checked)]
            expected ==
                (IF disk_use_num > args.disk_threshold
                 THEN << <<"Root disk usage ">> \o disk_use_pct \o <<" exceeds ">>
                            \o Str(args.disk_threshold) \o <<"%">> >>
                 ELSE <<>>)
                \o (IF ping_ok = "false"
                    THEN << <<"Ping to ">> \o args.ping \o <<" failed">> >>
                    ELSE <<>>)
                \o (IF names # <<>>
                    THEN << <<"Services not active: ">> \o Join(names) >>
                    ELSE <<>>)
            verdict == IF expected = <<>> THEN "healthy" ELSE "unhealthy"
        IN  /\ TheReport.failures = expected
            /\ TheReport.status = verdict
            /\ pc = "done" => exit_code = Some(IF expected = <<>> THEN 0 ELSE 1)

\* a healthy report on a host with pending upgrades, docker running, a CPU
\* figure and memory in use
C9_Witness ==
    /\ pc = "done"
    /\ Reported
    /\ TheReport.status = "healthy"
    /\ pkg_upgrades = Some(3)
    /\ docker = Some("running")
    /\ cpu_usage # None
    /\ mem_used_pct > 0

\* what no upgrades outcome may do: add a failure reason
NoUpgradesReason ==
    \A i \in 1..Len(failures) :
        Head(failures[i]) \in {"Root disk usage ", "Ping to ", "Services not active: "}

(* C10 as stated: without apt-get upgrades_pending is absent; with it, any *)
(* output that is not a count (empty output included) gives absent, never  *)
(* a number and never a failure reason; a count gives that non-negative    *)
(* number.                                                                 *)
C10_Original ==
    AfterUpgrades =>
        /\ NoUpgradesReason
        /\ "upgrades" \notin calls => pkg_upgrades = None
        /\ "upgrades" \in calls =>
              IF IsInt(r) /\ ParseInt(r) >= 0
              THEN pkg_upgrades = Some(ParseInt(r))
              ELSE pkg_upgrades = None

(* C10 as amended: without apt-get upgrades_pending is absent; with it,    *)
(* output with no characters at all gives 0, other output that is not a    *)
(* number (whitespace only, or text) gives absent, and a count gives that  *)
(* non-negative number; no outcome adds a failure reason.                  *)
C10_UpgradesCount ==
    AfterUpgrades =>
        /\ NoUpgradesReason
        /\ "upgrades" \notin calls => pkg_upgrades = None
        /\ "upgrades" \in calls =>
              IF r = <<>> THEN pkg_upgrades = Some(0)
              ELSE IF IsInt(r) /\ ParseInt(r) >= 0
                   THEN pkg_upgrades = Some(ParseInt(r))
                   ELSE pkg_upgrades = None

\* a report after apt-get printed text that is not a number
C10_Witness ==
    /\ Reported
    /\ "upgrades" \in calls
    /\ r = <<"E", ":", "\n">>
    /\ TheReport.packages.upgrades_pending = None

====
